---- MODULE Spec2Model ----
(***************************************************************************)
(* A model of neighborhood_analysis (src/src/lib.rs, src/src/utils.rs):    *)
(*   - CellCombs::new            the combination registry                   *)
(*   - count_neighbors           the neighbour-type counter                 *)
(*   - CellCombs::bootstrap      the parallel permutation engine            *)
(*   - comb_bootstrap            the boolean two-flag variant               *)
(*   - get_neighbors             the radius query over all points           *)
(*                                                                         *)
(* Numbers.  Every f64 the program computes from these inputs is a ratio   *)
(* of small integers (a mean of counts, a tally over trials+1) or the      *)
(* square root of one.  A value is modelled as an exact rational <<n, d>>  *)
(* in lowest terms with d > 0; a standard deviation is carried by its      *)
(* square (the variance), and a z-score by its sign and its square.  At    *)
(* the sizes explored two equal rationals are the same f64 and two         *)
(* different ones compare as the rationals do.                             *)
(*                                                                         *)
(* Indices.  Points are numbered from 0 as in the source; a neighbour      *)
(* list is a TLA+ sequence (positions from 1) of 0-based point indices, so *)
(* the source's enumerate() position of element j is j - 1.                *)
(***************************************************************************)
EXTENDS Integers, Sequences, FiniteSets, TLC

VARIABLES
    pc,                 \* position in the operation being run
    \* ---- CellCombs (lib.rs:133-140) and the arguments of new
    ctor_types,         \* `types` argument of CellCombs::new
    order,              \* `order` argument of CellCombs::new
    cell_types,         \* self.cell_types
    cell_combs,         \* self.cell_combs
    cell_relationships, \* self.cell_relationships
    \* ---- arguments shared by count_neighbors / bootstrap / comb_bootstrap
    types,              \* label of every point, indexed from 0
    neighbors,          \* HashMap<usize, Vec<usize>>
    ignore_self,
    \* ---- count_neighbors (lib.rs:349-390)
    storage,            \* HashMap<comb, Vec<usize>>
    visited,            \* keys of `neighbors` the for-loop has consumed
    panicked,           \* an unwrap() on a missing key was hit
    counts,             \* the returned HashMap<comb, f64>
    \* ---- CellCombs::bootstrap (lib.rs:211-346)
    times,
    method,
    pval,
    real_data,
    perm,               \* per-trial state of the parallel map: returned yet, and what
    finished,           \* trial indices in the order their closures returned
    all_data,
    simulate_data,
    results,
    \* ---- comb_bootstrap (lib.rs:62-121)
    x_status,
    y_status,
    real,
    perm_counts,
    zscore,
    \* ---- get_neighbors (lib.rs:35-44)
    points,
    radius2,            \* the radius r, in halves (r = radius2 / 2)
    result,
    next_i              \* loop index of the for at lib.rs:39

vars == << pc, ctor_types, order, cell_types, cell_combs, cell_relationships,
           types, neighbors, ignore_self, storage, visited, panicked, counts,
           times, method, pval, real_data, perm, finished, all_data,
           simulate_data, results, x_status, y_status, real, perm_counts, zscore,
           points, radius2, result, next_i >>

registry_vars == << ctor_types, order, cell_types, cell_combs, cell_relationships >>
input_vars    == << types, neighbors, ignore_self >>
count_vars    == << storage, visited, panicked, counts >>
boot_vars     == << times, method, pval, real_data, perm, finished,
                    all_data, simulate_data, results >>
bool_vars     == << x_status, y_status, real, perm_counts, zscore >>
geo_vars      == << points, radius2, result, next_i >>

(***************************************************************************)
(* Bounds of the exploration.                                              *)
(***************************************************************************)
\* longest label list handed to CellCombs::new
MaxTypesLen == 3
\* number of points given to count_neighbors
NPoints == 2
\* largest `times` argument of bootstrap / comb_bootstrap
MaxTimes == 2
\* longest neighbour list given to comb_bootstrap
MaxNeigh == 2
\* largest number of points given to get_neighbors
MaxPts == 3
\* coordinates are drawn from 0..GridMax on both axes
GridMax == 1
\* largest radius, in halves
MaxRadius2 == 3

Labels == {"A", "B", "C"}

(***************************************************************************)
(* Generic helpers.                                                        *)
(***************************************************************************)
Range(s) == {s[i] : i \in DOMAIN s}

SeqsUpTo(S, n) == UNION {[1..m -> S] : m \in 0..n}

NoDup(s) == \A i, j \in DOMAIN s : i # j => s[i] # s[j]

RECURSIVE SumSeq(_)
SumSeq(s) ==
    IF s = <<>> THEN 0 ELSE s[1] + SumSeq(Tail(s))

RECURSIVE SumSet(_, _)
SumSet(S, f) ==
    IF S = {} THEN 0
    ELSE LET e == CHOOSE e \in S : TRUE IN f[e] + SumSet(S \ {e}, f)

Abs(n) == IF n < 0 THEN -n ELSE n

RECURSIVE Gcd(_, _)
Gcd(a, b) ==
    IF b = 0 THEN a ELSE Gcd(b, a % b)

(***************************************************************************)
(* Exact rationals <<n, d>>, d > 0, lowest terms.                          *)
(***************************************************************************)
Rat(n, d) ==
    LET g == Gcd(Abs(n), d) IN << n \div g, d \div g >>

RZero == << 0, 1 >>
RInt(n) == << n, 1 >>
RAdd(a, b) == Rat(a[1] * b[2] + b[1] * a[2], a[2] * b[2])
RSub(a, b) == Rat(a[1] * b[2] - b[1] * a[2], a[2] * b[2])
RMul(a, b) == Rat(a[1] * b[1], a[2] * b[2])
RDivInt(a, n) == Rat(a[1], a[2] * n)
RLt(a, b) == a[1] * b[2] < b[1] * a[2]
RLe(a, b) == a[1] * b[2] <= b[1] * a[2]
RGe(a, b) == RLe(b, a)

RECURSIVE RSumSeq(_)
RSumSeq(s) ==
    IF s = <<>> THEN RZero ELSE RAdd(s[1], RSumSeq(Tail(s)))

(***************************************************************************)
(* utils.rs: mean, mean_f, std, std_f.                                     *)
(***************************************************************************)
\* utils.rs:81-89  mean of a Vec<usize>; 0.0 for the empty vector
mean(numbers) ==
    LET l == Len(numbers) IN
    IF l > 0 THEN Rat(SumSeq(numbers), l) ELSE RZero

\* utils.rs:91-99  mean of a Vec<f64>; 0.0 for the empty vector
mean_f(numbers) ==
    LET l == Len(numbers) IN
    IF l > 0 THEN RDivInt(RSumSeq(numbers), l) ELSE RZero

\* utils.rs:119-135  population variance of a Vec<f64>; std_f is its square
\* root, so std_f = 0 exactly when this is 0
std_f_sq(numbers) ==
    LET l == Len(numbers) IN
    IF l > 0
    THEN LET m == mean_f(numbers)
             sq == [i \in 1..l |-> LET diff == RSub(m, numbers[i])
                                   IN RMul(diff, diff)]
         IN RDivInt(RSumSeq(sq), l)
    ELSE RZero

\* utils.rs:101-117  population variance of a Vec<usize>; std is its square root
std_sq(numbers) ==
    std_f_sq([i \in DOMAIN numbers |-> RInt(numbers[i])])

(***************************************************************************)
(* CellCombs::new (lib.rs:147-193).                                        *)
(***************************************************************************)
\* faulty variant: the label list is used as given, repeated labels kept
uniqueKeepAll(s) == s

\* lib.rs:161  itertools unique(): first occurrences, in order
RECURSIVE unique(_)
unique(s) ==
    IF s = <<>> THEN <<>>
    ELSE LET front == unique(SubSeq(s, 1, Len(s) - 1))
             last  == s[Len(s)]
         IN IF last \in Range(front) THEN front ELSE Append(front, last)

\* lib.rs:165-173 with order_data: every (i1, i2), i1 outer, i2 inner
OrderedCombs(uni) ==
    LET k == Len(uni) IN
    [n \in 1..(k * k) |-> << uni[((n - 1) \div k) + 1], uni[((n - 1) % k) + 1] >>]

\* lib.rs:166-171  relationships[i1] = [[i1, i2] for i2 in uni]
Relationships(uni) ==
    [l \in Range(uni) |-> [j \in 1..Len(uni) |-> << l, uni[j] >>]]

\* faulty variant: the inner loop starts after the element itself (i+1..end)
RECURSIVE UnorderedFromNoSelf(_, _)
UnorderedFromNoSelf(uni, i) ==
    IF i > Len(uni) THEN <<>>
    ELSE [n \in 1..(Len(uni) - i) |-> << uni[i], uni[i + n] >>]
         \o UnorderedFromNoSelf(uni, i + 1)

\* lib.rs:177-181  for (i, e) in uni: for t in i..end: push [e, uni[t]]
\* (i is the source's 0-based index plus one)
RECURSIVE UnorderedFrom(_, _)
UnorderedFrom(uni, i) ==
    IF i > Len(uni) THEN <<>>
    ELSE [n \in 1..(Len(uni) - i + 1) |-> << uni[i], uni[i + n - 1] >>]
         \o UnorderedFrom(uni, i + 1)

\* lib.rs:161-192  the three fields of the constructed CellCombs
new(types_data, order_data) ==
    LET uni == unique(types_data) IN
    [ cell_types         |-> uni,
      cell_combs         |-> IF order_data THEN OrderedCombs(uni)
                             ELSE UnorderedFrom(uni, 1),
      cell_relationships |-> Relationships(uni) ]

(***************************************************************************)
(* Idle values of the parts a specification does not use.                  *)
(***************************************************************************)
NotRun == "NotRun"

RegistryIdle ==
    /\ ctor_types = <<>>
    /\ order = FALSE
    /\ cell_types = <<>>
    /\ cell_combs = <<>>
    /\ cell_relationships = <<>>

InputIdle ==
    /\ types = <<>>
    /\ neighbors = <<>>
    /\ ignore_self = FALSE

CountIdle ==
    /\ storage = <<>>
    /\ visited = {}
    /\ panicked = FALSE
    /\ counts = <<>>

BootIdle ==
    /\ times = 0
    /\ method = "pval"
    /\ pval = RZero
    /\ real_data = <<>>
    /\ perm = <<>>
    /\ finished = <<>>
    /\ all_data = <<>>
    /\ simulate_data = <<>>
    /\ results = <<>>

BoolIdle ==
    /\ x_status = <<>>
    /\ y_status = <<>>
    /\ real = 0
    /\ perm_counts = <<>>
    /\ zscore = NotRun

GeoIdle ==
    /\ points = <<>>
    /\ radius2 = 0
    /\ result = <<>>
    /\ next_i = 0

(***************************************************************************)
(* SpecNew: CellCombs::new on any label list.                              *)
(***************************************************************************)
InitNew ==
    /\ pc = "new"
    /\ ctor_types \in SeqsUpTo(Labels, MaxTypesLen)
    /\ order \in BOOLEAN
    /\ cell_types = <<>>
    /\ cell_combs = <<>>
    /\ cell_relationships = <<>>
    /\ InputIdle /\ CountIdle /\ BootIdle /\ BoolIdle /\ GeoIdle

CellCombsNew ==
    /\ pc = "new"
    /\ LET c == new(ctor_types, order) IN
        /\ cell_types' = c.cell_types
        /\ cell_combs' = c.cell_combs
        /\ cell_relationships' = c.cell_relationships
    /\ pc' = "built"
    /\ UNCHANGED << ctor_types, order, input_vars, count_vars, boot_vars,
                    bool_vars, geo_vars >>

NextNew == CellCombsNew

SpecNew == InitNew /\ [][NextNew]_vars

(***************************************************************************)
(* count_neighbors (lib.rs:349-390).                                       *)
(***************************************************************************)
Rev(comb) == << comb[2], comb[1] >>

\* ascending enumeration of a finite set of integers
RECURSIVE SetToSeq(_)
SetToSeq(S) ==
    IF S = {} THEN <<>>
    ELSE LET m == CHOOSE m \in S : \A o \in S : m <= o
         IN << m >> \o SetToSeq(S \ {m})

\* Counter::get(label).unwrap_or(&0) on the collected neighbour labels
CountOf(neigh_type, label) ==
    Cardinality({j \in DOMAIN neigh_type : neigh_type[j] = label})

\* faulty variant: ignore_self is not honoured, the point itself stays in its list
NeighTypeKeepSelf(v, k, tys, ign) ==
    [j \in DOMAIN v |-> tys[v[j]]]

\* lib.rs:362-372  labels of the neighbours of k; with ignore_self the
\* entries whose index is k itself are dropped
NeighType(v, k, tys, ign) ==
    LET kept == SelectSeq(v, LAMBDA i : ~ign \/ i # k)
    IN [j \in DOMAIN kept |-> tys[kept[j]]]

\* lib.rs:356-358  one empty observation list per registered combination
EmptyStorage(combs) ==
    [c \in Range(combs) |-> <<>>]

\* faulty variant: an entry that is no key of storage is dropped instead of being
\* filed under its reverse
RECURSIVE PushCountsNoReverse(_, _, _, _)
PushCountsNoReverse(st, rel, j, neigh_type) ==
    IF j > Len(rel) \/ ~st.ok THEN st
    ELSE LET comb == rel[j]
             c    == CountOf(neigh_type, comb[2])
         IN IF comb \in DOMAIN st.map
            THEN PushCountsNoReverse(
                     [ok |-> TRUE,
                      map |-> [st.map EXCEPT ![comb] = Append(@, c)]],
                     rel, j + 1, neigh_type)
            ELSE PushCountsNoReverse(st, rel, j + 1, neigh_type)

\* lib.rs:373-381  for comb in cell_relationships[cent_type]: push the count
\* of comb[1] under comb, or under its reverse when comb is no key; unwrap()
\* on a missing reverse key panics (ok = FALSE)
RECURSIVE PushCounts(_, _, _, _)
PushCounts(st, rel, j, neigh_type) ==
    IF j > Len(rel) \/ ~st.ok THEN st
    ELSE LET comb == rel[j]
             c    == CountOf(neigh_type, comb[2])
         IN IF comb \in DOMAIN st.map
            THEN PushCounts([ok |-> TRUE,
                             map |-> [st.map EXCEPT ![comb] = Append(@, c)]],
                            rel, j + 1, neigh_type)
            ELSE IF Rev(comb) \in DOMAIN st.map
            THEN PushCounts([ok |-> TRUE,
                             map |-> [st.map EXCEPT ![Rev(comb)] = Append(@, c)]],
                            rel, j + 1, neigh_type)
            ELSE [ok |-> FALSE, map |-> st.map]

\* faulty variant: a point whose (filtered) neighbour list is empty is skipped
ObserveSkipEmpty(st, k, tys, nbrs, rels, ign) ==
    LET neigh_type == NeighType(nbrs[k], k, tys, ign)
    IN IF neigh_type = <<>> THEN st
       ELSE PushCounts(st, rels[tys[k]], 1, neigh_type)

\* lib.rs:360-382  the body of `for (k, v) in neighbors.iter()` for one k;
\* indexing cell_relationships by a label it does not hold panics
Observe(st, k, tys, nbrs, rels, ign) ==
    LET neigh_type == NeighType(nbrs[k], k, tys, ign)
    IN IF tys[k] \in DOMAIN rels
       THEN PushCounts(st, rels[tys[k]], 1, neigh_type)
       ELSE [ok |-> FALSE, map |-> st.map]

\* lib.rs:384-389  every observation list reduced to its mean
Means(st) ==
    [c \in DOMAIN st |-> mean(st[c])]

RECURSIVE ObserveAll(_, _, _, _, _, _)
ObserveAll(st, keys, tys, nbrs, rels, ign) ==
    IF keys = <<>> THEN st
    ELSE ObserveAll(Observe(st, keys[1], tys, nbrs, rels, ign),
                    Tail(keys), tys, nbrs, rels, ign)

\* lib.rs:349-390  the whole function; the HashMap is walked in ascending key
\* order here, which the returned means do not depend on
count_neighbors(tys, nbrs, combs, rels, ign) ==
    LET st == ObserveAll([ok |-> TRUE, map |-> EmptyStorage(combs)],
                         SetToSeq(DOMAIN nbrs), tys, nbrs, rels, ign)
    IN [ok |-> st.ok, table |-> Means(st.map)]

(***************************************************************************)
(* SpecCount: count_neighbors, one loop iteration per step, on a registry  *)
(* built by CellCombs::new.                                                *)
(***************************************************************************)
CountLabels == {"A", "B"}

PointIds(n) == 0..(n - 1)

\* neighbour lists as get_neighbors produces them: no index twice
NeighborLists(ids) == {SetToSeq(S) : S \in SUBSET ids}

\* a dict may leave points out
NeighborMaps(ids) == UNION {[D -> NeighborLists(ids)] : D \in SUBSET ids}

InitCount ==
    /\ pc = "count_start"
    /\ types \in [PointIds(NPoints) -> CountLabels]
    /\ neighbors \in NeighborMaps(PointIds(NPoints))
    /\ ignore_self \in BOOLEAN
    /\ ctor_types \in {s \in SeqsUpTo(CountLabels, Cardinality(CountLabels)) :
                          NoDup(s) /\ Range(types) \subseteq Range(s)}
    /\ order \in BOOLEAN
    /\ cell_types = new(ctor_types, order).cell_types
    /\ cell_combs = new(ctor_types, order).cell_combs
    /\ cell_relationships = new(ctor_types, order).cell_relationships
    /\ CountIdle /\ BootIdle /\ BoolIdle /\ GeoIdle

CountStart ==
    /\ pc = "count_start"
    /\ storage' = EmptyStorage(cell_combs)
    /\ pc' = "count_loop"
    /\ UNCHANGED << registry_vars, input_vars, visited, panicked, counts,
                    boot_vars, bool_vars, geo_vars >>

CountPoint ==
    /\ pc = "count_loop"
    /\ \E k \in (DOMAIN neighbors) \ visited :
         LET st == Observe([ok |-> TRUE, map |-> storage], k, types,
                           neighbors, cell_relationships, ignore_self)
         IN /\ storage' = st.map
            /\ panicked' = ~st.ok
            /\ pc' = IF st.ok THEN "count_loop" ELSE "panic"
            /\ visited' = visited \cup {k}
    /\ UNCHANGED << registry_vars, input_vars, counts, boot_vars, bool_vars,
                    geo_vars >>

CountReturn ==
    /\ pc = "count_loop"
    /\ visited = DOMAIN neighbors
    /\ counts' = Means(storage)
    /\ pc' = "counted"
    /\ UNCHANGED << registry_vars, input_vars, storage, visited, panicked,
                    boot_vars, bool_vars, geo_vars >>

NextCount == CountStart \/ CountPoint \/ CountReturn

SpecCount == InitCount /\ [][NextCount]_vars

(***************************************************************************)
(* Floating-point quotient by a standard deviation.                        *)
(***************************************************************************)
Sign(a) == IF a[1] > 0 THEN 1 ELSE IF a[1] < 0 THEN -1 ELSE 0

ZFinite(sign, sq) == [class |-> "finite", sign |-> sign, sq |-> sq]
ZZero == ZFinite(0, RZero)
ZNaN == [class |-> "nan", sign |-> 0, sq |-> RZero]
ZInf(sign) == [class |-> "inf", sign |-> sign, sq |-> RZero]

\* the f64 quotient num / sd, sd given by its square: IEEE 754 division, so
\* 0.0 / 0.0 is NaN and x / 0.0 is an infinity with the sign of x; a finite
\* quotient is kept as its sign and its square num * num / (sd * sd)
DivBySd(num, sd_sq) ==
    IF sd_sq = RZero
    THEN IF num = RZero THEN ZNaN ELSE ZInf(Sign(num))
    ELSE ZFinite(Sign(num),
                 Rat(num[1] * num[1] * sd_sq[2], num[2] * num[2] * sd_sq[1]))

(***************************************************************************)
(* CellCombs::bootstrap (lib.rs:211-346).                                  *)
(***************************************************************************)
\* every arrangement slice::shuffle can leave the labels in
Perms(ids) == {f \in [ids -> ids] : \A a, b \in ids : a # b => f[a] # f[b]}

Shuffles(seq) == {[i \in DOMAIN seq |-> seq[f[i]]] : f \in Perms(DOMAIN seq)}

\* faulty variant: the results are taken as soon as one trial has finished
SomeTrialDone(trials) ==
    trials = <<>> \/ \E i \in DOMAIN trials : trials[i].done

\* lib.rs:279-291  collect() returns once every closure of the parallel map
\* has returned
AllTrialsDone(trials) ==
    \A i \in DOMAIN trials : trials[i].done

\* lib.rs:293-297  for perm_result in all_data: for (k, v) in perm_result:
\* simulate_data[k].push(v)
RECURSIVE AggregateFrom(_, _, _)
AggregateFrom(sim, all, i) ==
    IF i > Len(all) THEN sim
    ELSE AggregateFrom([c \in DOMAIN sim |->
                           IF c \in DOMAIN all[i]
                           THEN Append(sim[c], all[i][c]) ELSE sim[c]],
                       all, i + 1)

\* faulty variant: a trial value equal to the real value is tallied on both sides
RECURSIVE TallyBoth(_, _)
TallyBoth(v, real_v) ==
    IF v = <<>> THEN [gt |-> 0, lt |-> 0]
    ELSE LET rest == TallyBoth(Tail(v), real_v)
         IN [gt |-> rest.gt + (IF RGe(v[1], real_v) THEN 1 ELSE 0),
             lt |-> rest.lt + (IF RLe(v[1], real_v) THEN 1 ELSE 0)]

\* lib.rs:308-316  if i >= real { gt += 1 } else if i <= real { lt += 1 }
RECURSIVE Tally(_, _)
Tally(v, real_v) ==
    IF v = <<>> THEN [gt |-> 0, lt |-> 0]
    ELSE LET rest == Tally(Tail(v), real_v)
         IN IF RGe(v[1], real_v)
            THEN [gt |-> rest.gt + 1, lt |-> rest.lt]
            ELSE IF RLe(v[1], real_v)
            THEN [gt |-> rest.gt, lt |-> rest.lt + 1]
            ELSE rest

\* lib.rs:307-327  the 'pval' reduction of one combination
PvalReduce(v, real_v, t, threshold) ==
    LET tally == Tally(v, real_v)
        gt    == Rat(tally.gt, t + 1)
        lt    == Rat(tally.lt, t + 1)
        dir   == IF RLt(gt, lt) THEN 1 ELSE 0
        udir  == 0 - dir
        p     == RAdd(RMul(gt, RInt(dir)), RMul(lt, RInt(udir)))
        sig   == IF RLt(p, threshold) THEN 1 ELSE 0
        \* (dir - 0.5).signum() is 1.0 for dir = 1 and -1.0 for dir = 0
        sigv  == sig * (IF dir = 1 THEN 1 ELSE -1)
    IN [kind |-> "pval", gt_count |-> tally.gt, lt_count |-> tally.lt,
        gt |-> gt, lt |-> lt, p |-> p, sigv |-> sigv]

\* lib.rs:328-337  the 'zscore' reduction of one combination
ZscoreReduce(v, real_v) ==
    LET m     == mean_f(v)
        sd_sq == std_f_sq(v)
    IN [kind |-> "zscore", m |-> m, sd_sq |-> sd_sq,
        z |-> IF sd_sq # RZero THEN DivBySd(RSub(real_v, m), sd_sq)
              ELSE ZZero]

\* lib.rs:304-341  one result per key of simulate_data
Reduce(sim, real_tab, t, meth, threshold) ==
    [c \in DOMAIN sim |->
        IF meth = "pval" THEN PvalReduce(sim[c], real_tab[c], t, threshold)
        ELSE ZscoreReduce(sim[c], real_tab[c])]

(***************************************************************************)
(* Spec: CellCombs::bootstrap on two points, the trials of the parallel    *)
(* map finishing in any order.                                             *)
(***************************************************************************)
BootPointIds == PointIds(Cardinality(CountLabels))

\* lib.rs:241 is the default threshold 0.05
PvalChoices == {<< 1, 20 >>, << 1, 2 >>}

Init ==
    /\ pc = "boot_start"
    /\ types \in [BootPointIds -> CountLabels]
    /\ neighbors \in NeighborMaps(BootPointIds)
    /\ ignore_self \in BOOLEAN
    /\ ctor_types = << "A", "B" >>
    /\ order \in BOOLEAN
    /\ cell_types = new(ctor_types, order).cell_types
    /\ cell_combs = new(ctor_types, order).cell_combs
    /\ cell_relationships = new(ctor_types, order).cell_relationships
    /\ times \in 0..MaxTimes
    /\ method \in {"pval", "zscore"}
    /\ pval \in PvalChoices
    /\ real_data = <<>>
    /\ perm = <<>>
    /\ finished = <<>>
    /\ all_data = <<>>
    /\ simulate_data = <<>>
    /\ results = <<>>
    /\ CountIdle /\ BoolIdle /\ GeoIdle

\* lib.rs:267-277  the real count table and the empty null distributions
BootCountReal ==
    /\ pc = "boot_start"
    /\ LET r == count_neighbors(types, neighbors, cell_combs,
                                cell_relationships, ignore_self)
       IN /\ real_data' = r.table
          /\ pc' = IF r.ok THEN "trials" ELSE "panic"
    /\ simulate_data' = [c \in Range(cell_combs) |-> <<>>]
    /\ perm' = [i \in 1..times |-> [done |-> FALSE, table |-> <<>>]]
    /\ UNCHANGED << registry_vars, input_vars, count_vars, times, method, pval,
                    finished, all_data, results, bool_vars, geo_vars >>

\* lib.rs:279-290  one closure of the parallel map: shuffle a copy of the
\* labels with a thread-local generator and count
PermTrial ==
    /\ pc = "trials"
    /\ \E i \in DOMAIN perm :
         /\ ~perm[i].done
         /\ \E shuffle_types \in Shuffles(types) :
              LET r == count_neighbors(shuffle_types, neighbors, cell_combs,
                                       cell_relationships, ignore_self)
              IN /\ perm' = [perm EXCEPT ![i] = [done |-> TRUE, table |-> r.table]]
                 /\ finished' = Append(finished, i)
                 /\ pc' = IF r.ok THEN "trials" ELSE "panic"
    /\ UNCHANGED << registry_vars, input_vars, count_vars, times, method, pval,
                    real_data, all_data, simulate_data, results, bool_vars,
                    geo_vars >>

\* lib.rs:291  collect(): the trial results, in trial order
Collect ==
    /\ pc = "trials"
    /\ AllTrialsDone(perm)
    /\ all_data' = [i \in DOMAIN perm |-> perm[i].table]
    /\ pc' = "aggregate"
    /\ UNCHANGED << registry_vars, input_vars, count_vars, times, method, pval,
                    real_data, perm, finished, simulate_data, results,
                    bool_vars, geo_vars >>

\* lib.rs:293-297
Aggregate ==
    /\ pc = "aggregate"
    /\ simulate_data' = AggregateFrom(simulate_data, all_data, 1)
    /\ pc' = "reduce"
    /\ UNCHANGED << registry_vars, input_vars, count_vars, times, method, pval,
                    real_data, perm, finished, all_data, results, bool_vars,
                    geo_vars >>

\* lib.rs:302-345
ReduceAll ==
    /\ pc = "reduce"
    /\ results' = Reduce(simulate_data, real_data, times, method, pval)
    /\ pc' = "done"
    /\ UNCHANGED << registry_vars, input_vars, count_vars, times, method, pval,
                    real_data, perm, finished, all_data, simulate_data,
                    bool_vars, geo_vars >>

Next == BootCountReal \/ PermTrial \/ Collect \/ Aggregate \/ ReduceAll

Spec == Init /\ [][Next]_vars

(***************************************************************************)
(* Claims about CellCombs::new (checked under SpecNew).                    *)
(***************************************************************************)
\* C5: for a label list with k distinct labels the combination list has
\* exactly k*k entries (order) or k*(k+1)/2 entries (no order), holds no
\* entry twice, never holds both (A,B) and (B,A) for A # B when unordered,
\* and every pair of vocabulary labels has exactly one registered key.
C5_CombinationCompleteness ==
    pc = "built" =>
        LET vocab      == Range(ctor_types)
            k          == Cardinality(vocab)
            registered == Range(cell_combs)
        IN /\ Len(cell_combs) = IF order THEN k * k ELSE (k * (k + 1)) \div 2
           /\ NoDup(cell_combs)
           /\ registered \subseteq vocab \X vocab
           /\ \A a, b \in vocab :
                IF order THEN << a, b >> \in registered
                ELSE Cardinality({<< a, b >>, << b, a >>} \cap registered) = 1

\* C5 witness: an unordered registry built from a list that repeats a label
C5_Witness ==
    /\ pc = "built"
    /\ ~order
    /\ Cardinality(Range(ctor_types)) = 2
    /\ Len(ctor_types) = 3
    /\ Len(cell_combs) = 3

(***************************************************************************)
(* Claims about count_neighbors (checked under SpecCount).                 *)
(***************************************************************************)
\* number of entries of neighbors[k] labelled l, the point itself left out
\* when ignore_self is set
NeighboursLabelled(k, l) ==
    Cardinality({j \in DOMAIN neighbors[k] :
                    /\ types[neighbors[k][j]] = l
                    /\ (ignore_self => neighbors[k][j] # k)})

CentersOf(l) == {k \in DOMAIN neighbors : types[k] = l}

MeanOverCenters(S, a, b) ==
    LET f == [k \in S |-> NeighboursLabelled(k, IF types[k] = a THEN b ELSE a)]
    IN IF S = {} THEN RZero ELSE Rat(SumSet(S, f), Cardinality(S))

\* C8 as stated: in ordered and unordered mode alike the value of (A,B) is
\* the mean, over the points labelled A only, of their number of neighbours
\* labelled B.
C8_Original_MeanOverCentersOnly ==
    pc = "counted" =>
        \A c \in Range(cell_combs) :
            counts[c] = MeanOverCenters(CentersOf(c[1]), c[1], c[2])

\* C8 amended: the value of (A,B) is that mean over the A-labelled points of
\* the neighbour relation in ordered mode and whenever A = B; in unordered
\* mode with A # B it is the mean over the points labelled A or B of the
\* number of neighbours carrying the other of the two labels.
C8_MeanPooledWhenUnordered ==
    pc = "counted" =>
        /\ DOMAIN counts = Range(cell_combs)
        /\ \A c \in Range(cell_combs) :
             counts[c] =
                IF order \/ c[1] = c[2]
                THEN MeanOverCenters(CentersOf(c[1]), c[1], c[2])
                ELSE MeanOverCenters(CentersOf(c[1]) \cup CentersOf(c[2]),
                                     c[1], c[2])

\* C8 witness: an unordered pair (A,B), A # B, with centers of both labels
\* and a non-zero value
C8_Witness ==
    /\ pc = "counted"
    /\ ~order
    /\ \E c \in Range(cell_combs) :
         /\ c[1] # c[2]
         /\ CentersOf(c[1]) # {}
         /\ CentersOf(c[2]) # {}
         /\ counts[c] # RZero

\* the key an adjacency entry is filed under: itself when registered,
\* otherwise its reverse
KeyOf(comb) == IF comb \in Range(cell_combs) THEN comb ELSE Rev(comb)

\* the adjacency entries the loop has produced an observation for so far
ObservedEntries ==
    {e \in visited \X (1..Len(cell_types)) :
        e[2] \in DOMAIN cell_relationships[types[e[1]]]}

\* C9: with the registry of CellCombs::new and labels from its vocabulary,
\* every observation made for an adjacency entry (A,B) lands under exactly
\* one key, (A,B) when registered and (B,A) otherwise; that key exists, no
\* lookup of an unregistered combination happens, nothing is recorded twice.
C9_EveryObservationHasOneKey ==
    pc \in {"count_loop", "counted", "panic"} =>
        /\ ~panicked
        /\ pc # "panic"
        /\ \A k \in DOMAIN neighbors :
             \A comb \in Range(cell_relationships[types[k]]) :
                KeyOf(comb) \in DOMAIN storage
        /\ \A key \in DOMAIN storage :
             Len(storage[key]) =
                Cardinality({e \in ObservedEntries :
                    KeyOf(cell_relationships[types[e[1]]][e[2]]) = key})

\* C9 witness: an observation was filed under the reverse of its entry
C9_Witness ==
    /\ pc = "counted"
    /\ ~order
    /\ \E k \in visited :
         \E comb \in Range(cell_relationships[types[k]]) :
            /\ comb \notin Range(cell_combs)
            /\ Len(storage[Rev(comb)]) > 0

\* the neighbour list of k is empty once ignore_self has been applied
FilteredEmpty(k) ==
    \A j \in DOMAIN neighbors[k] : ignore_self /\ neighbors[k][j] = k

\* C10: a point with an entry whose list is empty (or holds only its own
\* index while ignore_self is set) is not skipped: its loop iteration appends
\* exactly one observation 0 to every combination of its label's adjacency
\* list, which cannot raise the mean of those combinations.
C10_EmptyPointContributesZero ==
    [][ pc = "count_loop" =>
          \A k \in visited' \ visited :
             FilteredEmpty(k) =>
                /\ ~panicked'
                /\ \A comb \in Range(cell_relationships[types[k]]) :
                     /\ storage'[KeyOf(comb)] = Append(storage[KeyOf(comb)], 0)
                     /\ RLe(mean(storage'[KeyOf(comb)]),
                            mean(storage[KeyOf(comb)])) ]_vars

\* C10 witness: an empty-list point was counted into a combination whose
\* other observations are not all 0
C10_Witness ==
    /\ pc \in {"count_loop", "counted"}
    /\ \E k \in visited :
         /\ FilteredEmpty(k)
         /\ \E comb \in Range(cell_relationships[types[k]]) :
              /\ Len(storage[KeyOf(comb)]) >= 2
              /\ mean(storage[KeyOf(comb)]) # RZero

(***************************************************************************)
(* Claims about CellCombs::bootstrap (checked under Spec).                 *)
(***************************************************************************)
\* C1: with method 'pval', for every combination, with gt and lt the two
\* tallies over trials + 1 and p = gt when gt < lt and p = lt otherwise, the
\* emitted value is +1 when p < pval and gt < lt, -1 when p < pval and not
\* gt < lt, and 0 whenever p is not below pval.
C1_SignedIndicatorHonoursThreshold ==
    (pc = "done" /\ method = "pval") =>
        \A c \in DOMAIN results :
            LET gt == results[c].gt
                lt == results[c].lt
                p  == IF RLt(gt, lt) THEN gt ELSE lt
            IN results[c].sigv =
                  IF RLt(p, pval) THEN (IF RLt(gt, lt) THEN 1 ELSE -1) ELSE 0

TrialsWhere(v, P(_)) == Cardinality({i \in DOMAIN v : P(v[i])})

\* C2 as stated: gt counts the trial values >= real and lt the trial values
\* <= real, a value equal to real being counted in both; each is divided by
\* trials + 1.
C2_Original_TieCountedInBoth ==
    (pc = "done" /\ method = "pval") =>
        \A c \in DOMAIN results :
            /\ results[c].gt_count =
                  TrialsWhere(simulate_data[c], LAMBDA x : RGe(x, real_data[c]))
            /\ results[c].lt_count =
                  TrialsWhere(simulate_data[c], LAMBDA x : RLe(x, real_data[c]))
            /\ results[c].gt = Rat(results[c].gt_count, times + 1)
            /\ results[c].lt = Rat(results[c].lt_count, times + 1)

\* C2 amended: gt counts the trial values >= real and lt the trial values
\* strictly below real, so a value equal to real is counted in gt only and
\* the two tallies add up to the number of trials; each is divided by
\* trials + 1.
C2_TieCountedInGtOnly ==
    (pc = "done" /\ method = "pval") =>
        \A c \in DOMAIN results :
            /\ results[c].gt_count =
                  TrialsWhere(simulate_data[c], LAMBDA x : RGe(x, real_data[c]))
            /\ results[c].lt_count =
                  TrialsWhere(simulate_data[c], LAMBDA x : RLt(x, real_data[c]))
            /\ results[c].gt_count + results[c].lt_count = times
            /\ results[c].gt = Rat(results[c].gt_count, times + 1)
            /\ results[c].lt = Rat(results[c].lt_count, times + 1)

\* C2 witness: a combination with a trial value equal to the real value and
\* another one below it
C2_Witness ==
    /\ pc = "done"
    /\ method = "pval"
    /\ \E c \in DOMAIN results :
         /\ \E i \in DOMAIN simulate_data[c] : simulate_data[c][i] = real_data[c]
         /\ \E i \in DOMAIN simulate_data[c] : RLt(simulate_data[c][i], real_data[c])
         /\ results[c].lt_count = 1

\* C6: after a bootstrap run with times = T every combination's null
\* distribution holds exactly T values, the i-th being the value of trial i,
\* whatever order the trials finished in; the null distribution is filled
\* and reduced only once all T trial results are in.
C6_NullDistributionHasOneValuePerTrial ==
    /\ pc \in {"aggregate", "reduce", "done"} =>
          /\ Len(all_data) = times
          /\ \A i \in 1..times : perm[i].done /\ all_data[i] = perm[i].table
          /\ Len(finished) = times
          /\ Range(finished) = 1..times
    /\ pc \in {"boot_start", "trials", "aggregate"} =>
          /\ results = <<>>
          /\ \A c \in DOMAIN simulate_data : simulate_data[c] = <<>>
    /\ pc \in {"reduce", "done"} =>
          /\ DOMAIN simulate_data = Range(cell_combs)
          /\ \A c \in Range(cell_combs) :
               /\ Len(simulate_data[c]) = times
               /\ \A i \in 1..times : simulate_data[c][i] = perm[i].table[c]
    /\ pc = "done" => DOMAIN results = Range(cell_combs)

\* C6 witness: a finished run of the largest number of trials in which the
\* last trial returned first and the trials did not all produce the same
\* value
C6_Witness ==
    /\ pc = "done"
    /\ times = MaxTimes
    /\ times >= 2
    /\ finished[1] = times
    /\ \E c \in Range(cell_combs) :
         \E i, j \in 1..times : simulate_data[c][i] # simulate_data[c][j]

(***************************************************************************)
(* comb_bootstrap and comb_count_neighbors (lib.rs:62-121, 392-418).       *)
(***************************************************************************)
\* lib.rs:403-411  the entries of v that are counted for the point k: with
\* ignore_self the entry at enumerate() position i is skipped when i = k
CountedEntries(v, k, y, ign) ==
    {j \in DOMAIN v : (ign => (j - 1) # k) /\ y[v[j]]}

\* lib.rs:392-418
comb_count_neighbors(x, y, nbrs, ign) ==
    LET per_point == [k \in DOMAIN nbrs |->
                         IF x[k] THEN Cardinality(CountedEntries(nbrs[k], k, y, ign))
                         ELSE 0]
    IN SumSet(DOMAIN nbrs, per_point)

\* lib.rs:117-120  (real - m) / sd with no test of sd
comb_zscore(real_count, counts_seq) ==
    LET m     == mean(counts_seq)
        sd_sq == std_sq(counts_seq)
    IN DivBySd(RSub(RInt(real_count), m), sd_sq)

(***************************************************************************)
(* SpecBool: comb_bootstrap on two points.                                 *)
(***************************************************************************)
\* any dict of lists: entries may repeat and come in any order
AnyNeighborMaps(ids) ==
    UNION {[D -> SeqsUpTo(ids, MaxNeigh)] : D \in SUBSET ids}

InitBool ==
    /\ pc = "bool_start"
    /\ x_status \in [BootPointIds -> BOOLEAN]
    /\ y_status \in [BootPointIds -> BOOLEAN]
    /\ neighbors \in AnyNeighborMaps(BootPointIds)
    /\ ignore_self \in BOOLEAN
    /\ times \in 0..MaxTimes
    /\ types = <<>>
    /\ real = 0
    /\ perm = <<>>
    /\ finished = <<>>
    /\ perm_counts = <<>>
    /\ zscore = NotRun
    /\ method = "pval"
    /\ pval = RZero
    /\ real_data = <<>>
    /\ all_data = <<>>
    /\ simulate_data = <<>>
    /\ results = <<>>
    /\ RegistryIdle /\ CountIdle /\ GeoIdle

\* lib.rs:102
BoolCountReal ==
    /\ pc = "bool_start"
    /\ real' = comb_count_neighbors(x_status, y_status, neighbors, ignore_self)
    /\ perm' = [i \in 1..times |-> [done |-> FALSE, table |-> 0]]
    /\ pc' = "bool_trials"
    /\ UNCHANGED << registry_vars, input_vars, count_vars, times, method, pval,
                    real_data, finished, all_data, simulate_data, results,
                    x_status, y_status, perm_counts, zscore, geo_vars >>

\* lib.rs:104-114  one closure of the parallel map
BoolTrial ==
    /\ pc = "bool_trials"
    /\ \E i \in DOMAIN perm :
         /\ ~perm[i].done
         /\ \E shuffle_y \in Shuffles(y_status) :
              perm' = [perm EXCEPT ![i] =
                          [done |-> TRUE,
                           table |-> comb_count_neighbors(x_status, shuffle_y,
                                                          neighbors, ignore_self)]]
    /\ UNCHANGED << pc, registry_vars, input_vars, count_vars, times, method,
                    pval, real_data, finished, all_data, simulate_data,
                    results, bool_vars, geo_vars >>

\* lib.rs:115-120  collect(), then the z-score
BoolReduce ==
    /\ pc = "bool_trials"
    /\ AllTrialsDone(perm)
    /\ perm_counts' = [i \in DOMAIN perm |-> perm[i].table]
    /\ zscore' = comb_zscore(real, [i \in DOMAIN perm |-> perm[i].table])
    /\ pc' = "bool_done"
    /\ UNCHANGED << registry_vars, input_vars, count_vars, boot_vars,
                    x_status, y_status, real, geo_vars >>

NextBool == BoolCountReal \/ BoolTrial \/ BoolReduce

SpecBool == InitBool /\ [][NextBool]_vars

(***************************************************************************)
(* Claims about the z-score and the boolean count (checked under SpecBool).*)
(***************************************************************************)
AllEqual(v) == \A i, j \in DOMAIN v : v[i] = v[j]

\* C3: every z-score returned, per combination by bootstrap with method
\* 'zscore' and the single one by comb_bootstrap, is exactly 0 whenever the
\* trial values are all identical or there are no trials; it is never NaN or
\* infinite.
C3_ZeroVarianceGivesZero ==
    /\ pc = "bool_done" =>
          /\ zscore.class = "finite"
          /\ AllEqual(perm_counts) => zscore = ZZero
    /\ (pc = "done" /\ method = "zscore") =>
          \A c \in DOMAIN results :
             /\ results[c].z.class = "finite"
             /\ AllEqual(simulate_data[c]) => results[c].z = ZZero

\* C4: with ignore_self the boolean count is the sum, over the points k of
\* the neighbour mapping with x[k] true, of the number of entries c of
\* neighbors[k] with c # k and y[c] true, wherever c stands in the list.
C4_SelfDroppedByIdentity ==
    (pc \in {"bool_trials", "bool_done"} /\ ignore_self) =>
        real = SumSet(DOMAIN neighbors,
                      [k \in DOMAIN neighbors |->
                          IF x_status[k]
                          THEN Cardinality({j \in DOMAIN neighbors[k] :
                                               /\ neighbors[k][j] # k
                                               /\ y_status[neighbors[k][j]]})
                          ELSE 0])

(***************************************************************************)
(* get_neighbors (lib.rs:35-44).                                           *)
(***************************************************************************)
\* squared distance between two grid points
SqDist(p, q) ==
    (p[1] - q[1]) * (p[1] - q[1]) + (p[2] - q[2]) * (p[2] - q[2])

\* KDBush::within(qx, qy, r, visitor): the ids of the indexed points within
\* distance r of (qx, qy), each visited once; with r = r2 / 2 the test
\* dist <= r is 4 * dist^2 <= r2^2
Within(pts, q, r2) ==
    SetToSeq({i \in 0..(Len(pts) - 1) : 4 * SqDist(pts[i + 1], q) <= r2 * r2})

\* lib.rs:38  one empty list per index 0..len-1
ResultInit(pts) ==
    [i \in 0..(Len(pts) - 1) |-> <<>>]

\* faulty variant: the query is centred on the point with its coordinates swapped
QueryCenterSwapped(pts, i) ==
    << pts[i + 1][2], pts[i + 1][1] >>

\* lib.rs:39-40  the query is centred on point i itself: (p.0, p.1)
QueryCenter(pts, i) ==
    pts[i + 1]

(***************************************************************************)
(* SpecNeighbors: get_neighbors, one loop iteration per step.              *)
(***************************************************************************)
GridCoords == (0..GridMax) \X (0..GridMax)

InitNeighbors ==
    /\ pc = "geo_start"
    /\ points \in SeqsUpTo(GridCoords, MaxPts)
    /\ radius2 \in 0..MaxRadius2
    /\ result = <<>>
    /\ next_i = 0
    /\ RegistryIdle /\ InputIdle /\ CountIdle /\ BootIdle /\ BoolIdle

\* lib.rs:37-38
GeoStart ==
    /\ pc = "geo_start"
    /\ result' = ResultInit(points)
    /\ next_i' = 0
    /\ pc' = "geo_loop"
    /\ UNCHANGED << registry_vars, input_vars, count_vars, boot_vars,
                    bool_vars, points, radius2 >>

\* lib.rs:39-41  every id the query visits is pushed onto result[i]
GeoQuery ==
    /\ pc = "geo_loop"
    /\ next_i < Len(points)
    /\ result' = [result EXCEPT ![next_i] =
                     @ \o Within(points, QueryCenter(points, next_i), radius2)]
    /\ next_i' = next_i + 1
    /\ UNCHANGED << pc, registry_vars, input_vars, count_vars, boot_vars,
                    bool_vars, points, radius2 >>

\* lib.rs:43
GeoReturn ==
    /\ pc = "geo_loop"
    /\ next_i = Len(points)
    /\ pc' = "geo_done"
    /\ UNCHANGED << registry_vars, input_vars, count_vars, boot_vars,
                    bool_vars, geo_vars >>

NextNeighbors == GeoStart \/ GeoQuery \/ GeoReturn

SpecNeighbors == InitNeighbors /\ [][NextNeighbors]_vars

\* C7: for n points and a radius r >= 0 the returned mapping has exactly the
\* keys 0..n-1 (none for an empty point list) and the list of index i holds
\* exactly the indices j at Euclidean distance <= r of point i, its own
\* index i among them.
C7_NeighborsWithinRadius ==
    pc = "geo_done" =>
        /\ DOMAIN result = 0..(Len(points) - 1)
        /\ \A i \in DOMAIN result :
             /\ Range(result[i]) =
                   {j \in 0..(Len(points) - 1) :
                       4 * SqDist(points[i + 1], points[j + 1]) <= radius2 * radius2}
             /\ NoDup(result[i])
             /\ i \in Range(result[i])

\* C7 witness: three points of which one has a neighbour within the radius
\* and another point outside it
C7_Witness ==
    /\ pc = "geo_done"
    /\ Len(points) = 3
    /\ \E i \in DOMAIN result : Len(result[i]) = 2

====
